---- MODULE Spec2Model ----
(***************************************************************************)
(* The GET /search handler of the federated search backend                 *)
(* (src/unnamed/part_000): query expansion with DataMuse, boolean query    *)
(* construction, the parallel search in Europeana and PLOS, and the        *)
(* normalisation and ranking of the combined results.                      *)
(*                                                                         *)
(* Text the code splits, trims and joins (the raw query, the terms, the    *)
(* synonyms, the query string) is a sequence of one-character strings.     *)
(* Titles and links, which the code only copies, are TLA+ strings.         *)
(* Relevance scores are fixed-point: the integer s stands for the score    *)
(* s / ScoreUnit.  A normalized score is an exact fraction in lowest terms.*)
(***************************************************************************)
EXTENDS Integers, Sequences, FiniteSets, TLC

\* ---------------------------------------------------------------- bounds
MaxQueryLen == 4
MaxSyn == 2
MaxItems == 2
MaxScore == 3
MaxRequests == 2
MaxSearches == 3
ScoreUnit == 2

\* ------------------------------------------------------- text primitives
Chars == {"a", " ", "\t"}
WhiteSpace == {" ", "\t"}
SynWords == {<<"a">>, <<"b">>}

SeqsUpTo(S, n) == UNION {[1..k -> S] : k \in 0..n}

OR_SEP == <<" ", "O", "R", " ">>
AND_SEP == <<" ", "A", "N", "D", " ">>
LPAREN == <<"(">>
RPAREN == <<")">>

\* String.prototype.split(' '): the pieces between single spaces, empty
\* pieces included.
RECURSIVE SplitFrom(_, _, _)
SplitFrom(s, i, cur) ==
    IF i > Len(s) THEN <<cur>>
    ELSE IF s[i] = " " THEN <<cur>> \o SplitFrom(s, i + 1, <<>>)
    ELSE SplitFrom(s, i + 1, Append(cur, s[i]))

Split(s) == SplitFrom(s, 1, <<>>)

\* String.prototype.trim(): leading and trailing white space removed.
RECURSIVE TrimStart(_)
TrimStart(s) ==
    IF s # <<>> /\ Head(s) \in WhiteSpace THEN TrimStart(Tail(s)) ELSE s

RECURSIVE TrimEnd(_)
TrimEnd(s) ==
    IF s # <<>> /\ s[Len(s)] \in WhiteSpace
    THEN TrimEnd(SubSeq(s, 1, Len(s) - 1)) ELSE s

Trim(s) == TrimEnd(TrimStart(s))

\* The filter without the trim: term => term !== ''
OriginalTermsOf_NoTrim(q) == SelectSeq(Split(q), LAMBDA term : term # <<>>)

\* userQuery.split(' ').filter(term => term.trim() !== '')
OriginalTermsOf(q) == SelectSeq(Split(q), LAMBDA term : Trim(term) # <<>>)

\* Array.prototype.join(sep)
RECURSIVE Join(_, _)
Join(parts, sep) ==
    IF parts = <<>> THEN <<>>
    ELSE IF Len(parts) = 1 THEN parts[1]
    ELSE parts[1] \o sep \o Join(Tail(parts), sep)

\* The list as it is, without the Set.
SetOrder_NoSet(xs, acc) == xs

\* [...new Set(xs)]: each value once, in the order of first insertion.
RECURSIVE SetOrder(_, _)
SetOrder(xs, acc) ==
    IF xs = <<>> THEN acc
    ELSE IF \E k \in 1..Len(acc) : acc[k] = Head(xs)
         THEN SetOrder(Tail(xs), acc)
         ELSE SetOrder(Tail(xs), Append(acc, Head(xs)))

GroupTerms(term, synonyms) == SetOrder(<<term>> \o synonyms, <<>>)

\* A builder that leaves out the terms that got no synonym.
QueryGroup_DropsBare(term, synonyms) ==
    LET groupTerms == GroupTerms(term, synonyms)
    IN  IF synonyms # <<>>
        THEN LPAREN \o Join(groupTerms, OR_SEP) \o RPAREN
        ELSE <<>>

\* A builder that wraps every group in parentheses.
QueryGroup_AlwaysParen(term, synonyms) ==
    LPAREN \o Join(GroupTerms(term, synonyms), OR_SEP) \o RPAREN

\* One query group: (term OR syn1 OR ...) or the bare term.
QueryGroup(term, synonyms) ==
    LET groupTerms == GroupTerms(term, synonyms)
    IN  IF Len(groupTerms) > 1
        THEN LPAREN \o Join(groupTerms, OR_SEP) \o RPAREN
        ELSE term

\* A builder that pairs the terms with the expansions in reverse.
QueryGroupsOf_Reversed(terms, syns) ==
    [i \in 1..Len(terms) |-> QueryGroup(terms[i], syns[Len(terms) + 1 - i])]

QueryGroupsOf(terms, syns) ==
    [i \in 1..Len(terms) |-> QueryGroup(terms[i], syns[i])]

QueryStringOf(groups) == Join(groups, AND_SEP)

\* ------------------------------------------------------------- DataMuse
\* What DataMuse answers to one call: a transport error, a body that is
\* not a list, a list with an entry that is null, or a list of entries
\* {word: w}.
DmEntries == {[word |-> w] : w \in SynWords}

DmFailKinds == {"error", "notlist", "nullentry"}

DmReplies ==
    {[kind |-> k, data |-> <<>>] : k \in DmFailKinds}
        \cup {[kind |-> "list", data |-> d] : d \in SeqsUpTo(DmEntries, MaxSyn)}

\* axios.get rejects, or response.data.map(word => word.word) throws.
DmFails(reply) == reply.kind \in DmFailKinds

\* expandQuery: the words of the reply, or [] when the call or the mapping
\* throws.
expandQuery(reply) ==
    IF DmFails(reply) THEN <<>>
    ELSE [k \in 1..Len(reply.data) |-> reply.data[k].word]

\* ------------------------------------------------------------- fractions
RECURSIVE Gcd(_, _)
Gcd(a, b) == IF b = 0 THEN a ELSE Gcd(b, a % b)

Abs(n) == IF n < 0 THEN 0 - n ELSE n

\* n / d for d > 0, in lowest terms.
Frac(n, d) ==
    LET g == Gcd(Abs(n), d)
    IN  [num |-> n \div g, den |-> d \div g]

ZERO == [num |-> 0, den |-> 1]
ONE == [num |-> 1, den |-> 1]

FracLess(x, y) == x.num * y.den < y.num * x.den

\* ------------------------------------------------------------ providers
NoTitle == "Sin Titulo"
NoLink == "#"
PLOS_ARTICLE_URL == "https://journals.plos.org/plosone/article?id="

ScoresIn == (0 - 1)..MaxScore

\* The items Europeana may list.  title is the item's list of titles
\* (empty when the item has none), a link field is "" when absent, and
\* hasScore tells whether the item carries a score.
EuropeanaItemsIn ==
    {[title |-> t.title, edmIsShownBy |-> t.by,
      edmIsShownAt |-> t.at, hasScore |-> h, score |-> IF h THEN s ELSE 0] :
        t \in {[title |-> <<>>, by |-> "", at |-> ""],
               [title |-> <<"e1", "e2">>, by |-> "", at |-> "at1"]},
        h \in BOOLEAN, s \in ScoresIn}

\* The docs PLOS may list.
PlosDocsIn ==
    {[title_display |-> t.title, id |-> t.id,
      hasScore |-> h, score |-> IF h THEN s ELSE 0] :
        t \in {[title |-> "", id |-> ""], [title |-> "p1", id |-> "id1"]},
        h \in BOOLEAN, s \in ScoresIn}

\* How a provider request settles: rejected; fulfilled without the list
\* (data, data.items, data.response or data.response.docs missing);
\* fulfilled with something in the list's place that is no list; fulfilled
\* with a list that has a null item; fulfilled with a list of items.
FailKinds == {"rejected", "nolist", "notlist", "nullitem"}

Reply(kind, items) == [kind |-> kind, items |-> items]

\* item => {title, source, original_relevance_score, link, normalized_score}
EuropeanaRecord(item) ==
    [title |-> IF Len(item.title) > 0 THEN item.title[1] ELSE NoTitle,
     source |-> "Europeana",
     original_relevance_score |->
         IF item.hasScore /\ item.score # 0 THEN item.score ELSE 0,
     link |-> IF item.edmIsShownBy # "" THEN item.edmIsShownBy
              ELSE IF item.edmIsShownAt # "" THEN item.edmIsShownAt
              ELSE NoLink,
     normalized_score |-> ZERO]

PlosRecord(doc) ==
    [title |-> IF doc.title_display # "" THEN doc.title_display ELSE NoTitle,
     source |-> "PLOS",
     original_relevance_score |->
         IF doc.hasScore /\ doc.score # 0 THEN doc.score ELSE 0,
     link |-> IF doc.id # "" THEN PLOS_ARTICLE_URL \o doc.id ELSE NoLink,
     normalized_score |-> ZERO]

\* A handler that reads value.data of a result without looking at its
\* status throws on a rejected one as well.
Throws_Rejected(reply) == reply.kind \in {"notlist", "nullitem", "rejected"}

\* The branch of the handler that maps a settled result throws a TypeError
\* when the list has no map method or an item is null.
Throws(reply) == reply.kind \in {"notlist", "nullitem"}

EuropeanaItems(reply) ==
    IF reply.kind = "list"
    THEN [k \in 1..Len(reply.items) |-> EuropeanaRecord(reply.items[k])]
    ELSE <<>>

PlosItems(reply) ==
    IF reply.kind = "list"
    THEN [k \in 1..Len(reply.items) |-> PlosRecord(reply.items[k])]
    ELSE <<>>

Unranked(r) == [r EXCEPT !.normalized_score = ZERO]

\* ------------------------------------------------- normalisation, ranking
SetMax(S) == CHOOSE m \in S : \A n \in S : n <= m

\* The maximum taken from the first record alone.
MaxScoreOf_Head(all) == SetMax({all[1].original_relevance_score, 0})

\* Math.max(...allResults.map(r => r.original_relevance_score), 0)
MaxScoreOf(all) ==
    SetMax({all[k].original_relevance_score : k \in 1..Len(all)} \cup {0})

\* Math.max(1, maxScore)
Divisor_AtLeastOne(maxScore) ==
    IF maxScore > ScoreUnit THEN maxScore ELSE ScoreUnit

\* No rescaling: the divisor is always 1.
Divisor_One(maxScore) == ScoreUnit

\* maxScore > 0 ? maxScore : 1
Divisor(maxScore) == IF maxScore > 0 THEN maxScore ELSE ScoreUnit

Normalize(all) ==
    IF Len(all) > 0
    THEN LET divisor == Divisor(MaxScoreOf(all))
         IN  [k \in 1..Len(all) |->
                 [all[k] EXCEPT !.normalized_score =
                     Frac(all[k].original_relevance_score, divisor)]]
    ELSE all

\* A sort that puts a record before the records of equal normalized_score.
InsertDesc_TiesFirst(sorted, r) ==
    LET before == {k \in 1..Len(sorted) :
                      FracLess(r.normalized_score, sorted[k].normalized_score)}
        n == Cardinality(before)
    IN  SubSeq(sorted, 1, n) \o <<r>> \o SubSeq(sorted, n + 1, Len(sorted))

\* allResults.sort((a, b) => b.normalized_score - a.normalized_score):
\* a stable sort, larger normalized_score first.
RECURSIVE InsertDesc(_, _)
InsertDesc(sorted, r) ==
    IF sorted = <<>> THEN <<r>>
    ELSE IF FracLess(Head(sorted).normalized_score, r.normalized_score)
         THEN <<r>> \o sorted
         ELSE <<Head(sorted)>> \o InsertDesc(Tail(sorted), r)

RECURSIVE SortDescFrom(_, _)
SortDescFrom(all, sorted) ==
    IF all = <<>> THEN sorted
    ELSE SortDescFrom(Tail(all), InsertDesc(sorted, Head(all)))

\* A sort that rounds every normalized_score to a whole number first.
SortDesc_Rounded(all) ==
    SortDescFrom(
        [k \in 1..Len(all) |->
            [all[k] EXCEPT !.normalized_score =
                IF 2 * all[k].normalized_score.num >= all[k].normalized_score.den
                THEN ONE ELSE ZERO]],
        <<>>)

SortDesc(all) == SortDescFrom(all, <<>>)

\* Sections 3 and 4 of the handler on the two settled results.
AllResults(eu, pl) == EuropeanaItems(eu) \o PlosItems(pl)

Ranked(eu, pl) == SortDesc(Normalize(AllResults(eu, pl)))

\* ------------------------------------------------------------ the handler
VARIABLES
    pc,             \* where the handler is: idle, expanding, searching,
                    \* done (response sent), thrown (handler rejected)
    req,            \* the request: hasQ (is q present), q (its text)
    datamuse,       \* what DataMuse answers to the call for term i
    europeana,      \* how the Europeana request settles
    plos,           \* how the PLOS request settles
    originalTerms,
    allSynonyms,    \* per term: settled, value (the words expandQuery gave)
    expansionOrder, \* history: the terms' indices in the order their
                    \* expansions settled
    queryGroups,
    queryString,
    outbound,       \* the axios.get calls issued so far, in order
    results,        \* per provider: settled, status
    allResults,
    res,            \* the response: status (0: none sent), body, error
    collected,      \* history: allResults when both providers are mapped
    normalized,     \* history: allResults when the scores are assigned
    EUROPEANA_API_KEY,  \* process.env.EUROPEANA_API_KEY: defined, value
    server,         \* the process: loading, listening, exited
    exitCode,       \* the status the process exited with
    handlers,       \* the handlers of requests served side by side
    dom,            \* the page: tbody rows and what is hidden
    fetches,        \* the page's searches that await their response
    searches        \* the number of searches the page has started

handlerVars ==
    <<pc, req, datamuse, europeana, plos, originalTerms, allSynonyms,
      expansionOrder, queryGroups, queryString, outbound, results, allResults,
      res, collected, normalized>>

processVars == <<EUROPEANA_API_KEY, server, exitCode>>

pageVars == <<dom, fetches, searches>>

vars == <<handlerVars, processVars, handlers, pageVars>>

Providers == {"Europeana", "PLOS"}

Queries == SeqsUpTo(Chars, MaxQueryLen)

Requests ==
    {[hasQ |-> TRUE, q |-> q] : q \in Queries} \cup {[hasQ |-> FALSE, q |-> <<>>]}

ListReplies(S, n) == {Reply("list", items) : items \in SeqsUpTo(S, n)}

FailReplies == {Reply(k, <<>>) : k \in FailKinds}

EuropeanaReplies(n) == FailReplies \cup ListReplies(EuropeanaItemsIn, n)
PlosReplies(n) == FailReplies \cup ListReplies(PlosDocsIn, n)

NTerms(r) == IF r.hasQ /\ r.q # <<>> THEN Len(OriginalTermsOf(r.q)) ELSE 0

\* Providers that fail or find nothing.
QuietReplies == {Reply("rejected", <<>>), Reply("list", <<>>)}

\* Every request up to MaxQueryLen characters with every DataMuse answer,
\* against providers that fail or find nothing.
QueryInputs ==
    \E r \in Requests, e \in QuietReplies :
        \E d \in [1..NTerms(r) -> DmReplies] :
            /\ req = r
            /\ datamuse = d
            /\ europeana = e
            /\ plos = Reply("list", <<>>)

\* Every request, for the process that has no key.
NoKeyInputs ==
    \E r \in Requests :
        /\ req = r
        /\ datamuse = [i \in 1..NTerms(r) |-> [kind |-> "error", data |-> <<>>]]
        /\ europeana = Reply("list", <<>>)
        /\ plos = Reply("list", <<>>)

\* The page before any search.
PageLoaded ==
    /\ dom = [tbody |-> <<>>, loading |-> "hidden", errorMessage |-> "hidden",
              errorText |-> "", resultsTable |-> "hidden",
              noResultsMessage |-> "hidden"]
    /\ fetches = <<>>
    /\ searches = 0

\* Every pair of provider answers with at most MaxItems items in all, for
\* a one-term request whose expansion fails.
RankInputs ==
    \E e \in EuropeanaReplies(MaxItems) :
        \E p \in PlosReplies(MaxItems - Len(e.items)) :
            /\ req = [hasQ |-> TRUE, q |-> <<"a">>]
            /\ datamuse = <<[kind |-> "error", data |-> <<>>]>>
            /\ europeana = e
            /\ plos = p

\* The handler of a request that has not arrived yet.
HandlerIdle ==
    /\ pc = "idle"
    /\ originalTerms = <<>>
    /\ allSynonyms = <<>>
    /\ expansionOrder = <<>>
    /\ queryGroups = <<>>
    /\ queryString = <<>>
    /\ outbound = <<>>
    /\ results = [p \in Providers |-> [settled |-> FALSE, status |-> "pending"]]
    /\ allResults = <<>>
    /\ res = [status |-> 0, body |-> <<>>, error |-> ""]
    /\ collected = <<>>
    /\ normalized = <<>>

KeyOf(defined, value) == [defined |-> defined, value |-> value]

\* The process with the key set meets every input; the process without
\* the key, or with an empty one, meets every request.
Init ==
    /\ \/ /\ QueryInputs \/ RankInputs
          /\ EUROPEANA_API_KEY = KeyOf(TRUE, "k1")
       \/ /\ NoKeyInputs
          /\ EUROPEANA_API_KEY \in {KeyOf(FALSE, ""), KeyOf(TRUE, "")}
    /\ HandlerIdle
    /\ server = "loading"
    /\ exitCode = 0
    /\ handlers = <<>>
    /\ PageLoaded

Q_REQUIRED == "El parametro de consulta \"q\" es requerido."

Call(svc, arg) == [svc |-> svc, arg |-> arg]

\* A check for the absent q only: userQuery === undefined
MissingQuery_UndefinedOnly(r) == ~r.hasQ

\* !userQuery: q is absent or the empty string.
MissingQuery(r) == ~r.hasQ \/ r.q = <<>>

\* A test for the unset variable only: EUROPEANA_API_KEY === undefined
KeyMissing_UnsetOnly(key) == ~key.defined

\* !EUROPEANA_API_KEY: the variable is unset or empty.
KeyMissing(key) == ~key.defined \/ key.value = ""

\* Lines 11-29 and 205-212: the module loads; without the key the process
\* exits with status 1 before any route is registered, otherwise it
\* registers the route and listens.
Startup ==
    /\ server = "loading"
    /\ IF KeyMissing(EUROPEANA_API_KEY)
       THEN server' = "exited" /\ exitCode' = 1
       ELSE server' = "listening" /\ UNCHANGED exitCode
    /\ UNCHANGED <<handlerVars, EUROPEANA_API_KEY, handlers, pageVars>>

\* Lines 59-73: the request arrives; without q the answer is 400, otherwise
\* the terms are split off and one expandQuery call per term is started.
Receive ==
    /\ server = "listening"
    /\ pc = "idle"
    /\ IF MissingQuery(req)
       THEN /\ res' = [status |-> 400, body |-> <<>>, error |-> Q_REQUIRED]
            /\ pc' = "done"
            /\ UNCHANGED <<originalTerms, allSynonyms, outbound>>
       ELSE LET terms == OriginalTermsOf(req.q)
            IN  /\ originalTerms' = terms
                /\ allSynonyms' =
                       [i \in 1..Len(terms) |-> [settled |-> FALSE, value |-> <<>>]]
                /\ outbound' =
                       [i \in 1..Len(terms) |-> Call("DataMuse", terms[i])]
                /\ pc' = "expanding"
                /\ UNCHANGED res
    /\ UNCHANGED <<req, datamuse, europeana, plos, expansionOrder, queryGroups,
                   queryString, results, allResults, collected, normalized>>
    /\ UNCHANGED <<processVars, handlers, pageVars>>

\* Lines 40-50: the DataMuse call for term i settles and expandQuery
\* resolves with the words, or with [] after a failure.
ExpandReply(i) ==
    /\ pc = "expanding"
    /\ i \in 1..Len(originalTerms)
    /\ ~allSynonyms[i].settled
    /\ datamuse[i].kind # "never"
    /\ allSynonyms' =
           [allSynonyms EXCEPT ![i] =
               [settled |-> TRUE, value |-> expandQuery(datamuse[i])]]
    /\ expansionOrder' = Append(expansionOrder, i)
    /\ UNCHANGED <<pc, req, datamuse, europeana, plos, originalTerms,
                   queryGroups, queryString, outbound, results, allResults, res,
                   collected, normalized>>
    /\ UNCHANGED <<processVars, handlers, pageVars>>

\* Promise.race in the place of Promise.all: one settled expansion is enough.
AllExpanded_Any == \E i \in 1..Len(originalTerms) : allSynonyms[i].settled

\* await Promise.all(expansionPromises): every expansion has settled.
AllExpanded == \A i \in 1..Len(originalTerms) : allSynonyms[i].settled

\* Lines 73-105: Promise.all has every expansion; the query string is
\* built; an empty one is answered with [], otherwise both provider
\* requests are started.
BuildQuery ==
    /\ pc = "expanding"
    /\ AllExpanded
    /\ LET syns == [i \in 1..Len(originalTerms) |-> allSynonyms[i].value]
           groups == QueryGroupsOf(originalTerms, syns)
           qs == QueryStringOf(groups)
       IN  /\ queryGroups' = groups
           /\ queryString' = qs
           /\ IF qs = <<>>
              THEN /\ res' = [status |-> 200, body |-> <<>>, error |-> ""]
                   /\ pc' = "done"
                   /\ UNCHANGED outbound
              ELSE /\ outbound' =
                          outbound \o <<Call("Europeana", qs), Call("PLOS", qs)>>
                   /\ pc' = "searching"
                   /\ UNCHANGED res
    /\ UNCHANGED <<req, datamuse, europeana, plos, originalTerms, allSynonyms,
                   expansionOrder, results, allResults, collected, normalized>>
    /\ UNCHANGED <<processVars, handlers, pageVars>>

ReplyOf(p) == IF p = "Europeana" THEN europeana ELSE plos

\* The request to provider p settles.
ProviderReply(p) ==
    /\ pc = "searching"
    /\ ~results[p].settled
    /\ ReplyOf(p).kind # "never"
    /\ results' =
           [results EXCEPT ![p] =
               [settled |-> TRUE,
                status |-> IF ReplyOf(p).kind = "rejected"
                           THEN "rejected" ELSE "fulfilled"]]
    /\ UNCHANGED <<pc, req, datamuse, europeana, plos, originalTerms,
                   allSynonyms, expansionOrder, queryGroups, queryString,
                   outbound, allResults, res, collected, normalized>>
    /\ UNCHANGED <<processVars, handlers, pageVars>>

\* Lines 109-202: Promise.allSettled has both results; the records are
\* collected, normalised, sorted and sent, unless mapping a list throws.
Aggregate ==
    /\ pc = "searching"
    /\ \A p \in Providers : results[p].settled
    /\ IF Throws(europeana) \/ Throws(plos)
       THEN /\ pc' = "thrown"
            /\ allResults' =
                   IF Throws(europeana) THEN <<>> ELSE EuropeanaItems(europeana)
            /\ collected' = allResults'
            /\ normalized' = <<>>
            /\ UNCHANGED res
       ELSE /\ collected' = AllResults(europeana, plos)
            /\ normalized' = Normalize(collected')
            /\ allResults' = Ranked(europeana, plos)
            /\ res' = [status |-> 200, body |-> allResults', error |-> ""]
            /\ pc' = "done"
    /\ UNCHANGED <<req, datamuse, europeana, plos, originalTerms, allSynonyms,
                   expansionOrder, queryGroups, queryString, outbound, results>>
    /\ UNCHANGED <<processVars, handlers, pageVars>>

Next ==
    \/ Startup
    \/ Receive
    \/ \E i \in 1..MaxQueryLen : ExpandReply(i)
    \/ BuildQuery
    \/ \E p \in Providers : ProviderReply(p)
    \/ Aggregate

Spec == Init /\ [][Next]_vars

\* ---------------------------------------------- services that never answer
\* axios.get is called without a timeout option, so a service that accepts
\* the connection and never answers leaves the call pending for ever.
Never == Reply("never", <<>>)

LiveRequests ==
    {[hasQ |-> FALSE, q |-> <<>>], [hasQ |-> TRUE, q |-> <<"a">>],
     [hasQ |-> TRUE, q |-> <<"a", " ", "a">>]}

LiveDmReplies ==
    {[kind |-> "never", data |-> <<>>], [kind |-> "error", data |-> <<>>],
     [kind |-> "list", data |-> <<[word |-> <<"b">>]>>]}

LiveEuropeanaReplies ==
    {Never, Reply("rejected", <<>>), Reply("list", <<>>),
     Reply("list", <<[title |-> <<"e1">>, edmIsShownBy |-> "by1",
                      edmIsShownAt |-> "", hasScore |-> TRUE, score |-> 1]>>)}

LivePlosReplies ==
    {Never, Reply("rejected", <<>>), Reply("list", <<>>),
     Reply("list", <<[title_display |-> "p1", id |-> "id1",
                      hasScore |-> TRUE, score |-> 1]>>)}

\* A few requests against services each of which answers well, fails, or
\* never answers.
InitLive ==
    /\ \E r \in LiveRequests, e \in LiveEuropeanaReplies, p \in LivePlosReplies :
          \E d \in [1..NTerms(r) -> LiveDmReplies] :
              /\ req = r
              /\ datamuse = d
              /\ europeana = e
              /\ plos = p
    /\ EUROPEANA_API_KEY = KeyOf(TRUE, "k1")
    /\ HandlerIdle
    /\ server = "loading"
    /\ exitCode = 0
    /\ handlers = <<>>
    /\ PageLoaded

\* The event loop runs every callback that is ready, and a reply that comes
\* is delivered.
SpecLive == InitLive /\ [][Next]_vars /\ WF_vars(Next)

\* ------------------------------------------- requests served side by side
\* Express calls the handler once per request; each call has its own
\* userQuery, originalTerms, allSynonyms, queryString, results and
\* allResults, and the calls interleave at their awaits.  handlers[h] holds
\* the locals of call h together with what the services answer to it.
RequestIds == 1..MaxRequests

ConcRequests ==
    {[hasQ |-> FALSE, q |-> <<>>], [hasQ |-> TRUE, q |-> <<"a">>]}

ConcDmReplies ==
    {[kind |-> "error", data |-> <<>>],
     [kind |-> "list", data |-> <<[word |-> <<"b">>]>>]}

ConcEuropeanaReplies ==
    {Reply("rejected", <<>>)}
        \cup {Reply("list", <<[title |-> <<"e1">>, edmIsShownBy |-> "by1",
                              edmIsShownAt |-> "", hasScore |-> TRUE,
                              score |-> sc]>>) : sc \in 1..2}

ConcPlosReplies ==
    {Reply("list", <<>>),
     Reply("list", <<[title_display |-> "p1", id |-> "id1",
                      hasScore |-> TRUE, score |-> 1]>>)}

HandlerInit(r, d, e, p) ==
    [pc |-> "idle", req |-> r, datamuse |-> d, europeana |-> e, plos |-> p,
     originalTerms |-> <<>>, allSynonyms |-> <<>>, queryString |-> <<>>,
     outbound |-> <<>>,
     results |-> [x \in Providers |-> [settled |-> FALSE, status |-> "pending"]],
     allResults |-> <<>>,
     res |-> [status |-> 0, body |-> <<>>, error |-> ""]]

\* A call without q makes no outbound call, so nothing answers it.
HandlerInits ==
    {HandlerInit(r, d, e, p) :
        r \in {x \in ConcRequests : x.hasQ},
        d \in {<<x>> : x \in ConcDmReplies},
        e \in ConcEuropeanaReplies, p \in ConcPlosReplies}
        \cup {HandlerInit(r, <<>>, Reply("list", <<>>), Reply("list", <<>>)) :
                 r \in {x \in ConcRequests : ~x.hasQ}}

InitConc ==
    /\ handlers \in [RequestIds -> HandlerInits]
    /\ EUROPEANA_API_KEY = KeyOf(TRUE, "k1")
    /\ server = "loading"
    /\ exitCode = 0
    /\ HandlerIdle
    /\ req = [hasQ |-> FALSE, q |-> <<>>]
    /\ datamuse = <<>>
    /\ europeana = Reply("list", <<>>)
    /\ plos = Reply("list", <<>>)
    /\ PageLoaded

\* Lines 59-73 for call h.
ReceiveH(h) ==
    LET me == handlers[h]
        terms == OriginalTermsOf(me.req.q)
    IN  /\ server = "listening"
        /\ me.pc = "idle"
        /\ handlers' =
               [handlers EXCEPT ![h] =
                   IF MissingQuery(me.req)
                   THEN [me EXCEPT
                            !.res = [status |-> 400, body |-> <<>>,
                                     error |-> Q_REQUIRED],
                            !.pc = "done"]
                   ELSE [me EXCEPT
                            !.originalTerms = terms,
                            !.allSynonyms =
                                [i \in 1..Len(terms) |->
                                    [settled |-> FALSE, value |-> <<>>]],
                            !.outbound =
                                [i \in 1..Len(terms) |-> Call("DataMuse", terms[i])],
                            !.pc = "expanding"]]
        /\ UNCHANGED <<handlerVars, processVars, pageVars>>

\* Lines 40-50 for term i of call h.
ExpandReplyH(h, i) ==
    LET me == handlers[h]
    IN  /\ me.pc = "expanding"
        /\ i \in 1..Len(me.originalTerms)
        /\ ~me.allSynonyms[i].settled
        /\ me.datamuse[i].kind # "never"
        /\ handlers' =
               [handlers EXCEPT ![h].allSynonyms[i] =
                   [settled |-> TRUE, value |-> expandQuery(me.datamuse[i])]]
        /\ UNCHANGED <<handlerVars, processVars, pageVars>>

\* Lines 73-105 for call h.
BuildQueryH(h) ==
    LET me == handlers[h]
        syns == [i \in 1..Len(me.originalTerms) |-> me.allSynonyms[i].value]
        qs == QueryStringOf(QueryGroupsOf(me.originalTerms, syns))
    IN  /\ me.pc = "expanding"
        /\ \A i \in 1..Len(me.originalTerms) : me.allSynonyms[i].settled
        /\ handlers' =
               [handlers EXCEPT ![h] =
                   IF qs = <<>>
                   THEN [me EXCEPT
                            !.queryString = qs,
                            !.res = [status |-> 200, body |-> <<>>, error |-> ""],
                            !.pc = "done"]
                   ELSE [me EXCEPT
                            !.queryString = qs,
                            !.outbound =
                                me.outbound
                                    \o <<Call("Europeana", qs), Call("PLOS", qs)>>,
                            !.pc = "searching"]]
        /\ UNCHANGED <<handlerVars, processVars, pageVars>>

\* The request of call h to provider p settles.
ProviderReplyH(h, p) ==
    LET me == handlers[h]
        reply == IF p = "Europeana" THEN me.europeana ELSE me.plos
    IN  /\ me.pc = "searching"
        /\ ~me.results[p].settled
        /\ reply.kind # "never"
        /\ handlers' =
               [handlers EXCEPT ![h].results[p] =
                   [settled |-> TRUE,
                    status |-> IF reply.kind = "rejected"
                               THEN "rejected" ELSE "fulfilled"]]
        /\ UNCHANGED <<handlerVars, processVars, pageVars>>

\* An allResults array kept at module level and never emptied: call h adds
\* its records to those of the calls that finished before it.
RECURSIVE EarlierResults(_, _)
EarlierResults(h, g) ==
    IF g = 0 THEN <<>>
    ELSE EarlierResults(h, g - 1)
             \o (IF g # h /\ handlers[g].pc = "done" /\ handlers[g].res.status = 200
                 THEN handlers[g].res.body ELSE <<>>)

CollectedBy_Shared(h) ==
    [k \in 1..Len(EarlierResults(h, MaxRequests)) |->
        Unranked(EarlierResults(h, MaxRequests)[k])]
        \o AllResults(handlers[h].europeana, handlers[h].plos)

\* let allResults = [] (line 110) and the two concat: the records of call
\* h's own provider results.
CollectedBy(h) == AllResults(handlers[h].europeana, handlers[h].plos)

\* Lines 109-202 for call h.
AggregateH(h) ==
    LET me == handlers[h]
        ranked == SortDesc(Normalize(CollectedBy(h)))
    IN  /\ me.pc = "searching"
        /\ \A p \in Providers : me.results[p].settled
        /\ handlers' =
               [handlers EXCEPT ![h] =
                   IF Throws(me.europeana) \/ Throws(me.plos)
                   THEN [me EXCEPT !.pc = "thrown"]
                   ELSE [me EXCEPT
                            !.allResults = ranked,
                            !.res = [status |-> 200, body |-> ranked, error |-> ""],
                            !.pc = "done"]]
        /\ UNCHANGED <<handlerVars, processVars, pageVars>>

NextConc ==
    \/ Startup
    \/ \E h \in RequestIds : ReceiveH(h)
    \/ \E h \in RequestIds, i \in 1..MaxQueryLen : ExpandReplyH(h, i)
    \/ \E h \in RequestIds : BuildQueryH(h)
    \/ \E h \in RequestIds, p \in Providers : ProviderReplyH(h, p)
    \/ \E h \in RequestIds : AggregateH(h)

SpecConc == InitConc /\ [][NextConc]_vars

\* ------------------------------------------------------------ the page
\* script.js: dom is what the page shows, fetches[f] is the f-th call
\* of fetch() made by performSearch (its query, whether the continuation
\* after the await has run, and the data it received), searches counts the
\* calls of performSearch.
EMPTY_QUERY == "Por favor, ingresa un termino de busqueda."
SEARCH_FAILED == "Ocurrio un error al realizar la busqueda"

SearchInputs == {<<>>, <<" ">>, <<"a">>}

\* What the backend sends back: a ranking (status 200), or a response that
\* is not ok or a fetch that fails, which both end in the catch block.
BackendAnswers ==
    {[ok |-> TRUE, data |-> Ranked(e, p)] :
        e \in {Reply("rejected", <<>>),
               Reply("list", <<[title |-> <<"e1">>, edmIsShownBy |-> "by1",
                                edmIsShownAt |-> "", hasScore |-> TRUE,
                                score |-> 2]>>)},
        p \in ConcPlosReplies}
        \cup {[ok |-> FALSE, data |-> <<>>]}

\* Number.prototype.toFixed(4), as a count of ten-thousandths.
ToFixed4(x) ==
    IF x.num < 0
    THEN 0 - ((2 * 10000 * (0 - x.num) + x.den) \div (2 * x.den))
    ELSE (2 * 10000 * x.num + x.den) \div (2 * x.den)

\* The row inserted for one result (lines 64-69) by the continuation of
\* fetch f.
Row(f, result) ==
    [by |-> f,
     a |-> [href |-> result.link, text |-> result.title],
     source |-> result.source,
     original |-> ToFixed4(Frac(result.original_relevance_score, ScoreUnit)),
     normalized |-> ToFixed4(result.normalized_score)]

\* Lines 85-90.
displayError(d, message) ==
    [d EXCEPT !.errorText = message, !.errorMessage = "shown",
              !.resultsTable = "hidden", !.noResultsMessage = "hidden"]

\* Lines 32-47: a click or Enter with value in the search box, up to the
\* await of fetch.
performSearch(value) ==
    LET query == Trim(value)
    IN  /\ searches < MaxSearches
        /\ searches' = searches + 1
        /\ IF query = <<>>
           THEN /\ dom' = displayError(dom, EMPTY_QUERY)
                /\ UNCHANGED fetches
           ELSE /\ dom' = [dom EXCEPT !.tbody = <<>>,
                                      !.resultsTable = "hidden",
                                      !.errorMessage = "hidden",
                                      !.noResultsMessage = "hidden",
                                      !.loading = "shown"]
                /\ fetches' = Append(fetches,
                                     [query |-> query, status |-> "pending",
                                      data |-> <<>>])
        /\ UNCHANGED <<handlerVars, processVars, handlers>>

\* Lines 49-77: the continuation of fetch f once the backend has answered.
FetchSettles(f, answer) ==
    /\ f \in 1..Len(fetches)
    /\ fetches[f].status = "pending"
    /\ fetches' = [fetches EXCEPT ![f].status = IF answer.ok THEN "ok" ELSE "failed",
                                  ![f].data = answer.data]
    /\ dom' =
           IF ~answer.ok
           THEN displayError([dom EXCEPT !.loading = "hidden"], SEARCH_FAILED)
           ELSE IF Len(answer.data) = 0
           THEN [dom EXCEPT !.loading = "hidden", !.noResultsMessage = "shown"]
           ELSE [dom EXCEPT !.loading = "hidden", !.resultsTable = "shown",
                            !.tbody = dom.tbody
                                \o [k \in 1..Len(answer.data) |->
                                       Row(f, answer.data[k])]]
    /\ UNCHANGED <<handlerVars, processVars, handlers, searches>>

InitFrontend ==
    /\ PageLoaded
    /\ handlers = <<>>
    /\ EUROPEANA_API_KEY = KeyOf(TRUE, "k1")
    /\ server = "listening"
    /\ exitCode = 0
    /\ HandlerIdle
    /\ req = [hasQ |-> FALSE, q |-> <<>>]
    /\ datamuse = <<>>
    /\ europeana = Reply("list", <<>>)
    /\ plos = Reply("list", <<>>)

NextFrontend ==
    \/ \E value \in SearchInputs : performSearch(value)
    \/ \E f \in 1..MaxSearches, answer \in BackendAnswers : FetchSettles(f, answer)

SpecFrontend == InitFrontend /\ [][NextFrontend]_vars

\* ================================================================ claims
AllWhite(q) == \A k \in 1..Len(q) : q[k] \in WhiteSpace

ProviderCalls == {k \in 1..Len(outbound) : outbound[k].svc \in Providers}
DataMuseCalls == {k \in 1..Len(outbound) : outbound[k].svc = "DataMuse"}

EmptyOk == [status |-> 200, body |-> <<>>, error |-> ""]

\* C1 as stated: every raw query without a non-whitespace term, the empty
\* one included, is answered with the empty result list and no provider
\* request.
C1_ZeroTermsEmptyResult_Original ==
    (pc = "done" /\ req.hasQ /\ AllWhite(req.q)) =>
        (res = EmptyOk /\ ProviderCalls = {})

\* C1 amended: a non-empty raw query made of white space only is answered
\* with the successful empty list, the empty raw query with the 400 error;
\* in both cases no provider request is ever issued.
C1_ZeroTermsEmptyResult ==
    (pc # "idle" /\ req.hasQ /\ AllWhite(req.q)) =>
        /\ ProviderCalls = {}
        /\ pc \in {"expanding", "done"}
        /\ pc = "done" =>
              IF req.q = <<>> THEN res.status = 400 /\ res.body = <<>>
              ELSE res = EmptyOk

C1_Witness ==
    /\ pc = "done"
    /\ req.hasQ /\ Len(req.q) > 1 /\ AllWhite(req.q)
    /\ \E k \in 1..Len(req.q) : req.q[k] = "\t"
    /\ res = EmptyOk
    /\ outbound = <<>>

\* C2: an empty or missing raw query is answered with an error, which is
\* not the successful empty list, and no DataMuse or provider call is made.
C2_EmptyQueryRejected ==
    (pc # "idle" /\ (~req.hasQ \/ req.q = <<>>)) =>
        /\ pc = "done"
        /\ res.status = 400
        /\ res.error # ""
        /\ res # EmptyOk
        /\ outbound = <<>>
        /\ originalTerms = <<>> /\ expansionOrder = <<>>

C2_Witness ==
    /\ pc = "done"
    /\ req.hasQ /\ req.q = <<>>
    /\ res.status = 400
    /\ outbound = <<>>

\* Both provider requests have settled and the handler has run to its end.
Aggregated == pc \in {"done", "thrown"} /\ \A p \in Providers : results[p].settled

Failed(reply) == reply.kind \in FailKinds

Other(p) == IF p = "Europeana" THEN "PLOS" ELSE "Europeana"

NoItems == Reply("list", <<>>)

\* What the handler answers when provider p's reply is replaced by an empty
\* list.
RankedWithout(p) ==
    IF p = "Europeana" THEN Ranked(NoItems, plos) ELSE Ranked(europeana, NoItems)

\* C3: when one provider is rejected or answers with a malformed payload
\* and the other answers with a list, the response is the successful one
\* the handler would give had the failing provider listed no items.
C3_PartialFailureIsolation ==
    \A p \in Providers :
        (Aggregated /\ Failed(ReplyOf(p)) /\ ReplyOf(Other(p)).kind = "list") =>
            /\ pc = "done"
            /\ res.status = 200
            /\ res.body = RankedWithout(p)

\* C4: when both provider requests are rejected the handler answers with
\* the successful empty list and does not throw.
C4_AllProvidersFail ==
    (/\ pc # "searching"
     /\ \A p \in Providers : results[p].settled /\ results[p].status = "rejected") =>
        /\ pc = "done"
        /\ res = EmptyOk

C4_Witness ==
    /\ pc = "done"
    /\ \A p \in Providers : results[p].status = "rejected"
    /\ Len(outbound) = 3
    /\ res = EmptyOk

Built == pc \in {"searching", "done", "thrown"} /\ originalTerms # <<>>

WordsOf(reply) == [k \in 1..Len(reply.data) |-> reply.data[k].word]

\* C5: a term whose DataMuse call fails, in transport or in parsing, has
\* the empty expansion and its bare text as group; the groups of the other
\* terms are those of their own DataMuse answers; the handler throws for no
\* other reason than a provider's payload.
C5_ExpansionFailureAbsorbed ==
    /\ \A i \in 1..Len(originalTerms) :
          (pc # "idle" /\ allSynonyms[i].settled /\ datamuse[i].kind # "list") =>
              allSynonyms[i].value = <<>>
    /\ Built =>
          /\ Len(queryGroups) = Len(originalTerms)
          /\ \A i \in 1..Len(originalTerms) :
                IF datamuse[i].kind # "list"
                THEN queryGroups[i] = originalTerms[i]
                ELSE queryGroups[i] =
                         QueryGroup(originalTerms[i], WordsOf(datamuse[i]))
    /\ pc = "thrown" => (Throws(europeana) \/ Throws(plos))

C5_Witness ==
    /\ pc = "done"
    /\ res.status = 200
    /\ Len(originalTerms) = 2
    /\ \E i, j \in 1..2 :
          /\ datamuse[i].kind \in {"notlist", "nullentry"}
          /\ queryGroups[i] = originalTerms[i]
          /\ datamuse[j].kind = "list" /\ Len(datamuse[j].data) = 2
          /\ queryGroups[j] # originalTerms[j]

Range(xs) == {xs[k] : k \in 1..Len(xs)}

FirstAt(xs, w) == CHOOSE k \in 1..Len(xs) : xs[k] = w /\ \A j \in 1..(k - 1) : xs[j] # w

\* The distinct values of xs, each once, ordered by first occurrence.
FirstSeen(xs) ==
    CHOOSE m \in [1..Cardinality(Range(xs)) -> Range(xs)] :
        /\ Range(m) = Range(xs)
        /\ \A a, b \in 1..Len(m) : a < b => FirstAt(xs, m[a]) < FirstAt(xs, m[b])

\* C6: a term that has k > 1 distinct members in {term} \cup synonyms is
\* rendered as "(" m1 " OR " ... " OR " mk ")", the members each once, in
\* first-seen order, the term first.
C6_GroupRendering ==
    Built =>
        \A i \in 1..Len(originalTerms) :
            LET term == originalTerms[i]
                seen == <<term>> \o allSynonyms[i].value
                m == FirstSeen(seen)
            IN  Cardinality(Range(seen)) > 1 =>
                    /\ m[1] = term
                    /\ queryGroups[i] = LPAREN \o Join(m, OR_SEP) \o RPAREN

C6_Witness ==
    /\ Built /\ pc = "done"
    /\ \E i \in 1..Len(originalTerms) :
          /\ allSynonyms[i].value = <<originalTerms[i], <<"b">>>>
          /\ queryGroups[i] = LPAREN \o originalTerms[i] \o OR_SEP \o <<"b">> \o RPAREN

\* C7: a term whose expansion is empty is rendered as the bare term.
C7_BareTerm ==
    Built =>
        \A i \in 1..Len(originalTerms) :
            allSynonyms[i].value = <<>> => queryGroups[i] = originalTerms[i]

C7_Witness ==
    /\ Built /\ pc = "done"
    /\ \E i \in 1..Len(originalTerms) :
          /\ datamuse[i] = [kind |-> "list", data |-> <<>>]
          /\ queryGroups[i] = originalTerms[i]
          /\ queryString = originalTerms[i]

RECURSIVE AndChain(_, _)
AndChain(groups, n) ==
    IF n = 1 THEN groups[1]
    ELSE AndChain(groups, n - 1) \o AND_SEP \o groups[n]

\* C8: the query string is the groups of the terms, one per term and in
\* the terms' order, whatever the order the expansions settled in, joined
\* by " AND "; the request "\ta a" with the expansions [b] and [] gives
\* "(\ta OR b) AND a".
C8_QueryString ==
    Built =>
        /\ Len(queryGroups) = Len(originalTerms)
        /\ \A i \in 1..Len(originalTerms) :
              queryGroups[i] = QueryGroup(originalTerms[i], expandQuery(datamuse[i]))
        /\ queryString = AndChain(queryGroups, Len(queryGroups))
        /\ (/\ req.q = <<"\t", "a", " ", "a">>
            /\ datamuse = <<[kind |-> "list", data |-> <<[word |-> <<"b">>]>>],
                            [kind |-> "list", data |-> <<>>]>>) =>
               queryString = <<"(", "\t", "a", " ", "O", "R", " ", "b", ")",
                               " ", "A", "N", "D", " ", "a">>

C8_Witness ==
    /\ Built /\ pc = "done"
    /\ Len(originalTerms) = 2
    /\ expansionOrder = <<2, 1>>
    /\ allSynonyms[1].value = <<<<"b">>>>
    /\ allSynonyms[2].value = <<>>
    /\ queryString = LPAREN \o originalTerms[1] \o OR_SEP \o <<"b">> \o RPAREN
                         \o AND_SEP \o originalTerms[2]

\* The response carries the ranked records of a request that reached the
\* providers.
Answered == Aggregated /\ pc = "done" /\ res.status = 200

Scores(recs) == {recs[k].original_relevance_score : k \in 1..Len(recs)}

IsMax(m, S) == m \in S /\ \A n \in S : n <= m

\* x = n / d, for d > 0
FracIs(x, n, d) == x.den > 0 /\ x.num * d = n * x.den

Floor0(S) == IF \E n \in S : n > 0 THEN CHOOSE m \in S : IsMax(m, S) ELSE 0

InUnit(x) == x.den > 0 /\ 0 <= x.num /\ x.num <= x.den

ReportedScores ==
    {europeana.items[k].score : k \in 1..Len(europeana.items)}
        \cup {plos.items[k].score : k \in 1..Len(plos.items)}

\* C11 as stated: whatever scores the providers report, every record of a
\* returned list has its normalized_score in [0, 1].
C11_NormalizedInUnitInterval_Original ==
    Answered => \A k \in 1..Len(res.body) : InUnit(res.body[k].normalized_score)

\* C11 amended: when no provider reports a negative score, every record of
\* a returned list has its normalized_score in [0, 1].
C11_NormalizedInUnitInterval ==
    (Answered /\ \A s \in ReportedScores : s >= 0) =>
        \A k \in 1..Len(res.body) : InUnit(res.body[k].normalized_score)

C11_Witness ==
    /\ Answered
    /\ Len(res.body) = 2
    /\ \A s \in ReportedScores : s >= 0
    /\ res.body[1].original_relevance_score > ScoreUnit
    /\ res.body[1].normalized_score = ONE
    /\ res.body[2].original_relevance_score = 1
    /\ InUnit(res.body[2].normalized_score)
    /\ res.body[2].normalized_score \notin {ZERO, ONE}

\* The records in concatenation order, as the connectors' mappings make
\* them: Europeana's items in reported order, then PLOS's docs.
Concatenated ==
    [k \in 1..Len(europeana.items) |-> EuropeanaRecord(europeana.items[k])]
        \o [k \in 1..Len(plos.items) |-> PlosRecord(plos.items[k])]

Unscored(r) == [r EXCEPT !.normalized_score = ZERO]

Perms(n) == {f \in [1..n -> 1..n] : \A a, b \in 1..n : a # b => f[a] # f[b]}

\* C12: the returned list is the concatenated records, larger
\* normalized_score first, and records of equal normalized_score in their
\* concatenation order.
C12_StableDescendingOrder ==
    Answered =>
        /\ Len(res.body) = Len(Concatenated)
        /\ \E f \in Perms(Len(res.body)) :
              /\ \A k \in 1..Len(res.body) : Unscored(res.body[k]) = Concatenated[f[k]]
              /\ \A k, l \in 1..Len(res.body) :
                    k < l =>
                        \/ FracLess(res.body[l].normalized_score,
                                    res.body[k].normalized_score)
                        \/ /\ res.body[l].normalized_score = res.body[k].normalized_score
                           /\ f[k] < f[l]
        /\ \A k, l \in 1..Len(res.body) :
              (/\ k < l
               /\ res.body[k].normalized_score = res.body[l].normalized_score) =>
                  ~(res.body[k].source = "PLOS" /\ res.body[l].source = "Europeana")

C12_Witness ==
    /\ Answered
    /\ Len(res.body) = 2
    /\ res.body[1].source = "Europeana" /\ res.body[2].source = "PLOS"
    /\ res.body[1].original_relevance_score = 1
    /\ res.body[2].original_relevance_score = 1
    /\ res.body[1].normalized_score = res.body[2].normalized_score

UnexpectedShapes == {"nolist", "notlist", "nullitem"}

\* C14: a fulfilled provider request whose payload lacks the list, has no
\* list in its place or has a malformed item in it contributes no record
\* and raises nothing: the request is answered.
C14_SchemaDriftAbsorbed ==
    \A p \in Providers :
        (Aggregated /\ ReplyOf(p).kind \in UnexpectedShapes) =>
            /\ pc = "done"
            /\ res.status = 200
            /\ \A k \in 1..Len(res.body) : res.body[k].source # p

\* The pieces of s between runs of white space.
RECURSIVE WsTokensFrom(_, _, _)
WsTokensFrom(s, i, cur) ==
    LET piece == IF cur = <<>> THEN <<>> ELSE <<cur>>
    IN  IF i > Len(s) THEN piece
        ELSE IF s[i] \in WhiteSpace THEN piece \o WsTokensFrom(s, i + 1, <<>>)
        ELSE WsTokensFrom(s, i + 1, Append(cur, s[i]))

WsTokens(s) == WsTokensFrom(s, 1, <<>>)

\* C18: the terms are the raw query's pieces between white space, in their
\* order: each is non-empty and has no white-space character.
C18_TermsSplitOnWhitespace ==
    (pc # "idle" /\ ~MissingQuery(req)) =>
        /\ \A i \in 1..Len(originalTerms) :
              /\ originalTerms[i] # <<>>
              /\ \A k \in 1..Len(originalTerms[i]) :
                    originalTerms[i][k] \notin WhiteSpace
        /\ originalTerms = WsTokens(req.q)

\* C15: no provider request is issued before every term's expansion has
\* settled, and nothing is collected, normalised, sorted or answered from
\* the providers before both provider requests have settled.
C15_TwoPhases ==
    /\ ProviderCalls # {} =>
          /\ \A i \in 1..Len(originalTerms) : allSynonyms[i].settled
          /\ Len(expansionOrder) = Len(originalTerms)
          /\ \A k \in ProviderCalls, d \in DataMuseCalls : d < k
          /\ Cardinality(DataMuseCalls) = Len(originalTerms)
    /\ (\/ collected # <<>> \/ normalized # <<>> \/ allResults # <<>>
        \/ pc = "thrown"
        \/ res.status # 0 /\ ProviderCalls # {}) =>
          \A p \in Providers : results[p].settled

C15_Witness ==
    /\ pc = "done"
    /\ Len(originalTerms) = 2
    /\ expansionOrder = <<2, 1>>
    /\ Cardinality(ProviderCalls) = 2
    /\ \A p \in Providers : results[p].settled
    /\ res.status = 200

\* C16: a process started without the Europeana key, or with an empty one,
\* never listens and never handles a request, and when it has exited its
\* status is not 0.
C16_NoKeyNoService ==
    (~EUROPEANA_API_KEY.defined \/ EUROPEANA_API_KEY.value = "") =>
        /\ server # "listening"
        /\ pc = "idle"
        /\ outbound = <<>>
        /\ res.status = 0
        /\ server = "exited" => exitCode # 0

C16_Witness ==
    /\ ~EUROPEANA_API_KEY.defined
    /\ server = "exited"
    /\ exitCode = 1
    /\ req.hasQ /\ req.q = <<"a">>
    /\ pc = "idle"

SameRecords(xs, ys) ==
    /\ Len(xs) = Len(ys)
    /\ \E f \in Perms(Len(xs)) : \A k \in 1..Len(xs) : xs[k] = ys[f[k]]

\* C19: no record exists, and no normalized_score is set, before both
\* providers have settled; the aggregator then gives each record its
\* normalized_score once, over the placeholder 0 it was made with, and the
\* sort and the response carry every record with that same value.
C19_NormalizedWriteOnce ==
    /\ pc \in {"idle", "expanding", "searching"} =>
          collected = <<>> /\ normalized = <<>> /\ allResults = <<>>
    /\ Answered =>
          /\ \A p \in Providers : results[p].settled
          /\ Len(normalized) = Len(collected)
          /\ \A k \in 1..Len(collected) :
                /\ collected[k].normalized_score = ZERO
                /\ Unscored(normalized[k]) = collected[k]
          /\ SameRecords(allResults, normalized)
          /\ res.body = allResults

C19_Witness ==
    /\ Answered
    /\ Len(res.body) = 2
    /\ allResults # normalized
    /\ collected[2].normalized_score = ZERO
    /\ normalized[2].normalized_score = ONE
    /\ res.body[1] = normalized[2]
    /\ res.body[2] = normalized[1]
    /\ res.body[2].normalized_score \notin {ZERO, ONE}

\* C13: every request the listening server receives is answered in the
\* end, also when an external service never answers.
C13_EveryRequestAnswered == (server = "listening") ~> (res.status # 0)

\* What call h answers when it is the only call the server ever serves: a
\* function of its raw query and of the answers to its own outbound calls.
AloneResponse(me) ==
    LET terms == OriginalTermsOf(me.req.q)
        syns == [i \in 1..Len(terms) |-> expandQuery(me.datamuse[i])]
    IN  IF MissingQuery(me.req)
        THEN [status |-> 400, body |-> <<>>, error |-> Q_REQUIRED]
        ELSE IF QueryStringOf(QueryGroupsOf(terms, syns)) = <<>>
        THEN [status |-> 200, body |-> <<>>, error |-> ""]
        ELSE IF Throws(me.europeana) \/ Throws(me.plos)
        THEN [status |-> 0, body |-> <<>>, error |-> ""]
        ELSE [status |-> 200, body |-> Ranked(me.europeana, me.plos), error |-> ""]

\* C17: whatever the interleaving of the in-flight /search calls, the
\* response of each finished call is the one its own raw query and the
\* answers to its own outbound calls determine; the terms, records and
\* scores of the other calls play no part in it.
C17_RequestsIndependent ==
    \A h \in RequestIds :
        LET me == handlers[h]
        IN  /\ me.pc \in {"done", "thrown"} => me.res = AloneResponse(me)
            /\ me.pc = "searching" =>
                   me.outbound =
                       [i \in 1..Len(me.originalTerms) |->
                           Call("DataMuse", OriginalTermsOf(me.req.q)[i])]
                       \o <<Call("Europeana", me.queryString),
                            Call("PLOS", me.queryString)>>

\* Two calls answered with different, non-empty rankings, the first after
\* the second had its own records.
C17_Witness ==
    /\ handlers[1].pc = "done"
    /\ handlers[2].pc = "done"
    /\ handlers[1].res.status = 200
    /\ handlers[2].res.status = 200
    /\ Len(handlers[1].res.body) = 2
    /\ Len(handlers[2].res.body) = 1
    /\ handlers[1].res.body[1].normalized_score # handlers[1].res.body[2].normalized_score
    /\ handlers[1].queryString # handlers[2].queryString

\* The rows the table holds when it shows the data of fetch f alone.
RowsFor(f) ==
    IF fetches[f].status = "ok"
    THEN [k \in 1..Len(fetches[f].data) |-> Row(f, fetches[f].data[k])]
    ELSE <<>>

AllHandled == \A f \in 1..Len(fetches) : fetches[f].status # "pending"

\* C20: in the page, once every outstanding response has been handled, the
\* results table holds exactly the rows of the most recently started
\* search and no row of an earlier one, also when a search was started
\* while an earlier one was awaiting its response.
C20_TableShowsLatestSearch ==
    (Len(fetches) > 0 /\ AllHandled) => dom.tbody = RowsFor(Len(fetches))
====
